---- MODULE Spec2Model ----
(***************************************************************************)
(* A model of the HTTP bridge of src/src/http-bridge.js (class HTTPBridge): *)
(* the supervisor of the STDIO child, the in-flight map that correlates     *)
(* JSON-RPC responses with callers, the initialize handshake and the        *)
(* restart policy.                                                          *)
(*                                                                          *)
(* Node runs one callback at a time and drains the promise reactions        *)
(* (microtasks) before the next callback, so every action below is one      *)
(* callback of the event loop together with the reactions it triggers.      *)
(* Handlers are written as functions from a bridge state (a record with     *)
(* one field per variable, plus the queue of promise reactions) to a        *)
(* bridge state; an action applies one handler and installs the result.     *)
(***************************************************************************)
EXTENDS Integers, Sequences, FiniteSets, TLC

\* this.maxRestarts. The constructor sets 5; the model runs the same policy
\* with a smaller budget, which is a bound of the model.
maxRestarts == 3

\* Bounds of the model: POST /mcp requests received, initialize messages
\* built, and the largest id a client puts in a request body.
MaxPosts == 2
MaxInits == 2
MaxClientId == 2

\* Bound of the model: the length, in symbols, of the output stream that is
\* fed to handleChildOutput on its own.
MaxStream == 5

VARIABLES
    child,          \* this.child: 0 is null, c > 0 is the c-th spawned handle
    kids,           \* the ChildProcess handles, in spawn order
    inflight,       \* this.inflight: id -> the resolver of a sendToChild call
    buffer,         \* this.buffer
    requestId,      \* this.requestId
    isRestarting,   \* this.isRestarting
    restartCount,   \* this.restartCount
    initialized,    \* this.initialized
    initPromise,    \* this.initPromise: 0 is null, else the initialize call
    reqs,           \* the sendToChild calls made so far (promise, timer, write)
    posts,          \* the POST /mcp requests received so far
    restartTimers,  \* pending setTimeout callbacks of handleChildExit
    initTimers,     \* pending setTimeout callbacks of spawnChild
    authToken,      \* process.env.MCP_HTTP_TOKEN: 0 is unset, else the token
    requestCredentials, \* this.requestCredentials: id -> perplexityKey
    delays,         \* the delays (ms) of the restart timers set so far
    norm,           \* the last call of normalizeMethod and what it returned
    codec           \* the chunks fed to handleChildOutput, and what it parsed

vars == <<child, kids, inflight, buffer, requestId, isRestarting, restartCount,
          initialized, initPromise, reqs, posts, restartTimers, initTimers,
          authToken, requestCredentials, delays, norm, codec>>

----------------------------------------------------------------------------
\* JSON values of `params`: absent (undefined), or an object, described by
\* its fields name and uri ("" when the object lacks the field) and by what
\* else it holds (extra).
Absent == [present |-> FALSE, name |-> "", uri |-> "", extra |-> 0]

Obj(name, uri, extra) ==
    [present |-> TRUE, name |-> name, uri |-> uri, extra |-> extra]

\* The object literal {}.
EmptyObj == Obj("", "", 0)

\* A normalization that forwards the caller's params for the list methods
\* too.
normalizeMethod_KeepsAllParams(method, params) ==
    CASE method \in {"listTools", "tools/list"} ->
             [method |-> "tools/list", params |-> params]
      [] method \in {"callTool", "tools/call"} ->
             [method |-> "tools/call", params |-> params]
      [] method \in {"listResources", "resources/list"} ->
             [method |-> "resources/list", params |-> params]
      [] method \in {"readResource", "resources/read"} ->
             [method |-> "resources/read", params |-> params]
      [] OTHER -> [method |-> method, params |-> params]

\* normalizeMethod(method, params): the switch over the method name.
normalizeMethod(method, params) ==
    CASE method \in {"listTools", "tools/list"} ->
             [method |-> "tools/list", params |-> EmptyObj]
      [] method \in {"callTool", "tools/call"} ->
             [method |-> "tools/call", params |-> params]
      [] method \in {"listResources", "resources/list"} ->
             [method |-> "resources/list", params |-> EmptyObj]
      [] method \in {"readResource", "resources/read"} ->
             [method |-> "resources/read", params |-> params]
      [] OTHER -> [method |-> method, params |-> params]

\* Nothing was fed to handleChildOutput yet.
NoFeed == [fed |-> <<>>, out |-> <<>>, calls |-> 0]

\* No call of normalizeMethod yet.
NoCall == [method |-> "", params |-> Absent,
           out |-> [method |-> "", params |-> Absent]]

----------------------------------------------------------------------------
\* The bridge state as a record; jobs is the queue of promise reactions of
\* the running callback (empty between callbacks), seen the messages that
\* handleChildOutput has parsed in the running callback.
St ==
    [child |-> child, kids |-> kids, inflight |-> inflight, buffer |-> buffer,
     requestId |-> requestId, isRestarting |-> isRestarting,
     restartCount |-> restartCount, initialized |-> initialized,
     initPromise |-> initPromise, reqs |-> reqs, posts |-> posts,
     restartTimers |-> restartTimers, initTimers |-> initTimers,
     authToken |-> authToken, requestCredentials |-> requestCredentials,
     delays |-> delays, norm |-> norm, codec |-> codec, jobs |-> <<>>,
     seen |-> <<>>]

Install(s) ==
    /\ child' = s.child
    /\ kids' = s.kids
    /\ inflight' = s.inflight
    /\ buffer' = s.buffer
    /\ requestId' = s.requestId
    /\ isRestarting' = s.isRestarting
    /\ restartCount' = s.restartCount
    /\ initialized' = s.initialized
    /\ initPromise' = s.initPromise
    /\ reqs' = s.reqs
    /\ posts' = s.posts
    /\ restartTimers' = s.restartTimers
    /\ initTimers' = s.initTimers
    /\ authToken' = s.authToken
    /\ requestCredentials' = s.requestCredentials
    /\ delays' = s.delays
    /\ norm' = s.norm
    /\ codec' = s.codec

\* Map.set and Map.delete on the in-flight map.
MapSet(m, k, v) == [x \in (DOMAIN m) \cup {k} |-> IF x = k THEN v ELSE m[x]]

MapDel(m, k) == [x \in (DOMAIN m) \ {k} |-> m[x]]

EmptyMap == [x \in {} |-> 0]

\* !this.child || this.child.killed
NotRunning(s) == s.child = 0 \/ s.kids[s.child].killed

\* The OS process behind the current handle is running.
ChildAlive(s) == s.child # 0 /\ s.kids[s.child].proc = "running"

\* An initialize exchange with child c has completed: an initialize message
\* written to c was answered by c's reply to it.
HandshakeDoneWith(s, c) ==
    \E k \in 1..Len(s.reqs) :
        /\ s.reqs[k].kind = "init"
        /\ s.reqs[k].child = c
        /\ s.reqs[k].result = "response"
        /\ s.reqs[k].reply = k

----------------------------------------------------------------------------
\* No message: the value of a promise that is pending or rejected.
NoMsg == [t |-> "none", id |-> 0, about |-> 0, err |-> FALSE]

\* Promise resolve/reject of the sendToChild call r: the first call settles
\* the promise (with message m when it is resolved) and queues its
\* reactions, later calls do nothing.
Settle(s, r, res, m) ==
    IF s.reqs[r].result # "waiting" THEN s
    ELSE [s EXCEPT !.reqs[r].result = res,
                   !.reqs[r].reply = m.about,
                   !.reqs[r].got = m,
                   !.reqs[r].stale = m.about # 0
                                     /\ s.reqs[m.about].result = "timeout",
                   !.jobs = Append(@, r)]

\* A resolver that resolves without clearTimeout.
ResolverResolve_KeepsTimer(s, r, m) == Settle(s, r, "response", m)

\* resolver.resolve / resolver.reject stored in the in-flight map:
\* clearTimeout(timeout), then resolve/reject.
ResolverResolve(s, r, m) ==
    Settle([s EXCEPT !.reqs[r].timer = FALSE], r, "response", m)

ResolverReject(s, r, why) ==
    Settle([s EXCEPT !.reqs[r].timer = FALSE], r, why, NoMsg)

\* A JSON-RPC request {jsonrpc, method, params, id}; auth is the credential
\* in params._auth (0: params has no _auth).
Message(method, params, auth, id) ==
    [method |-> method, params |-> params, auth |-> auth, id |-> id]

\* sendToChild(message) called for POST p (0 for the handshake).
sendToChild(s, kind, message, p) ==
    LET r == Len(s.reqs) + 1
        id == message.id
        call == [kind |-> kind, id |-> id, post |-> p, child |-> s.child,
                 message |-> message,
                 result |-> "waiting", reply |-> 0, got |-> NoMsg,
                 stale |-> FALSE,
                 timer |-> FALSE, wcb |-> FALSE, out |-> "none", err |-> FALSE,
                 written |-> FALSE,
                 live |-> ChildAlive(s),
                 dead |-> s.child # 0 /\ (s.kids[s.child].exitEv
                                          \/ s.kids[s.child].errEv),
                 hs |-> HandshakeDoneWith(s, s.child),
                 ready |-> s.initialized,
                 over |-> IF id \in DOMAIN s.inflight THEN s.inflight[id] ELSE 0]
    IN  IF NotRunning(s)
        THEN Settle([s EXCEPT !.reqs = Append(@, call)], r, "notrunning",
                    NoMsg)
        ELSE [s EXCEPT
                !.reqs = Append(@, [call EXCEPT !.timer = TRUE, !.wcb = TRUE,
                                                !.written = TRUE]),
                !.inflight = MapSet(@, id, r)]

\* An envelope that is added for every method and tool.
AuthEnvelope_AnyTool(key, normalized) == key

\* The credential put in enhancedParams._auth (0: none):
\* `perplexityKey && normalized.method === "tools/call" &&
\*  normalized.params?.name === "fetch_perplexity_data"`.
AuthEnvelope(key, normalized) ==
    IF /\ key # 0
       /\ normalized.method = "tools/call"
       /\ normalized.params.name = "fetch_perplexity_data"
    THEN key ELSE 0

\* The rest of the POST /mcp handler after `await this.initializeChild()`:
\* the method is normalized, the credential of this request is put in the
\* params if the tool asks for it, and the message is sent.
PostSend(s, p) ==
    LET post == s.posts[p]
        normalized == normalizeMethod(post.method, post.params)
    IN  sendToChild([s EXCEPT !.posts[p].stage = "sent",
                              !.posts[p].req = Len(s.reqs) + 1],
                    "post",
                    Message(normalized.method, normalized.params,
                            AuthEnvelope(post.key, normalized), post.id),
                    p)

\* error.message of the rejections of sendToChild and of the handler's own
\* throw ("stdio").
ErrorMessage(why) ==
    CASE why = "stdio" -> "STDIO child process is not running"
      [] why = "notrunning" -> "Child process is not running"
      [] why = "exited" -> "Child process exited"
      [] why = "timeout" -> "Request timeout (60s)"
      [] why = "write" -> "Failed to write to child"

\* The handler of a POST ends with its response, and its local
\* perplexityKey (key) ends with it. The catch block of the handler:
\* this.requestCredentials.delete(id), then
\* res.status(500).json({jsonrpc, error: {code: -32603, message}, id}).
PostFail(s, p, why) ==
    [s EXCEPT !.requestCredentials = MapDel(@, s.posts[p].id),
              !.posts[p].stage = "done", !.posts[p].key = 0,
              !.posts[p].http = 500,
              !.posts[p].code = -32603,
              !.posts[p].message = ErrorMessage(why),
              !.posts[p].rid = s.posts[p].id,
              !.posts[p].nresp = @ + 1]

\* The bearer token test fails:
\* res.status(401).json({jsonrpc, error: {code: -32001, message}, id}).
PostDeny(s, p) ==
    [s EXCEPT !.posts[p].stage = "done", !.posts[p].key = 0,
              !.posts[p].http = 401,
              !.posts[p].code = -32001,
              !.posts[p].message = "Unauthorized",
              !.posts[p].rid = s.posts[p].id,
              !.posts[p].nresp = @ + 1]

\* A handler that treats an error object of the child as a fault of the
\* bridge.
PostReply_ErrorsAsFaults(s, p, m) ==
    IF m.err THEN PostFail(s, p, "exited")
    ELSE [s EXCEPT !.requestCredentials = MapDel(@, s.posts[p].id),
                   !.posts[p].stage = "done", !.posts[p].key = 0,
                   !.posts[p].http = 200,
                   !.posts[p].body = m,
                   !.posts[p].nresp = @ + 1]

\* this.requestCredentials.delete(id), then res.json(result): HTTP 200 with
\* the message the promise resolved with.
PostReply(s, p, m) ==
    [s EXCEPT !.requestCredentials = MapDel(@, s.posts[p].id),
              !.posts[p].stage = "done", !.posts[p].key = 0,
              !.posts[p].http = 200,
              !.posts[p].body = m,
              !.posts[p].nresp = @ + 1]

\* The POST handlers suspended on the initialize promise k resume, in the
\* order in which they awaited it.
RECURSIVE Wake(_, _, _, _)
Wake(s, k, ok, p) ==
    IF p > Len(s.posts) THEN s
    ELSE IF s.posts[p].stage = "await" /\ s.posts[p].init = k
         THEN Wake(IF ok THEN PostSend(s, p)
                   ELSE PostFail(s, p, s.reqs[k].result), k, ok, p + 1)
         ELSE Wake(s, k, ok, p + 1)

\* The .catch of initializeChild: `this.initPromise = null` (and rethrow).
InitFailed(s) == [s EXCEPT !.initPromise = 0]

\* The reactions of the settled promise of call r: the .then/.catch of
\* initializeChild followed by its awaiters, or the POST handler's
\* continuation.
Continue(s, r) ==
    LET q == s.reqs[r]
    IN  IF q.kind = "init"
        THEN IF q.result = "response"
             THEN Wake([s EXCEPT !.initialized = TRUE], r, TRUE, 1)
             ELSE Wake(InitFailed(s), r, FALSE, 1)
        ELSE IF q.result = "response"
             THEN PostReply(s, q.post, q.got)
             ELSE PostFail(s, q.post, q.result)

\* The microtask queue is drained before the next callback runs.
RECURSIVE Drain(_)
Drain(s) ==
    IF s.jobs = <<>> THEN s
    ELSE Drain(Continue([s EXCEPT !.jobs = Tail(@)], Head(s.jobs)))

\* A handshake that tests this.initialized instead of this.initPromise alone:
\* it coalesces callers only once the handshake is complete.
HandshakeStarted_OnlyWhenComplete(s) == s.initPromise # 0 /\ s.initialized

\* `if (this.initPromise)` of initializeChild.
HandshakeStarted(s) == s.initPromise # 0

\* initializeChild() called by POST p (p = 0: by the timer of spawnChild).
initializeChild(s, p) ==
    LET join(t, k) ==
            IF p = 0 THEN t
            ELSE IF t.reqs[k].result = "waiting"
                 THEN [t EXCEPT !.posts[p].stage = "await", !.posts[p].init = k,
                                !.posts[p].shared = s.initPromise # 0]
                 ELSE IF t.reqs[k].result = "response"
                      THEN PostSend([t EXCEPT !.posts[p].init = k], p)
                      ELSE IF \E j \in 1..Len(t.jobs) : t.jobs[j] = k
                           THEN [t EXCEPT !.posts[p].stage = "await",
                                          !.posts[p].init = k]
                           ELSE PostFail([t EXCEPT !.posts[p].init = k], p,
                                         t.reqs[k].result)
    IN  IF HandshakeStarted(s)
        THEN join(s, s.initPromise)
        ELSE LET k == Len(s.reqs) + 1
                 s1 == sendToChild([s EXCEPT !.requestId = @ + 1], "init",
                                   Message("initialize", Obj("", "", 1), 0,
                                           s.requestId),
                                   0)
             IN  join([s1 EXCEPT !.initPromise = k], k)

----------------------------------------------------------------------------
\* What the child writes on its stdout, as a sequence of symbols: "msg" is
\* the JSON text of a message with the given id, sent by the child in reply
\* to call `about`, carrying an error object (err) or a result; "nl" is a
\* newline; "sp" is white space; "bad" is text that is no JSON. The text of
\* a message may come in two pieces: "msgL" is its beginning, up to and
\* including the id, and "msgR" is the rest; the two pieces, with or without
\* white space between them, are the text of the message.
Msg(id, about, err) == [t |-> "msg", id |-> id, about |-> about, err |-> err]

MsgL(id) == [t |-> "msgL", id |-> id, about |-> 0, err |-> FALSE]

MsgR(about, err) == [t |-> "msgR", id |-> 0, about |-> about, err |-> err]

NL == [t |-> "nl", id |-> 0, about |-> 0, err |-> FALSE]

SP == [t |-> "sp", id |-> 0, about |-> 0, err |-> FALSE]

BAD == [t |-> "bad", id |-> 0, about |-> 0, err |-> FALSE]

\* this.buffer.indexOf("\n") + 1: 0 when there is no newline.
NewlineIndex(b) ==
    IF \E i \in 1..Len(b) : b[i].t = "nl"
    THEN CHOOSE i \in 1..Len(b) :
             b[i].t = "nl" /\ \A j \in 1..(i - 1) : b[j].t # "nl"
    ELSE 0

\* line.trim() is empty.
Blank(line) == \A i \in 1..Len(line) : line[i].t = "sp"

\* The line without its white space.
Text(line) == SelectSeq(line, LAMBDA x : x.t # "sp")

\* JSON.parse(line) succeeds: one JSON text with white space around it (and
\* possibly between its two pieces).
Parses(line) ==
    \/ Len(Text(line)) = 1 /\ Text(line)[1].t = "msg"
    \/ /\ Len(Text(line)) = 2
       /\ Text(line)[1].t = "msgL"
       /\ Text(line)[2].t = "msgR"

Parsed(line) ==
    IF Len(Text(line)) = 1 THEN Text(line)[1]
    ELSE Msg(Text(line)[1].id, Text(line)[2].about, Text(line)[2].err)

\* The while loop of handleChildOutput.
RECURSIVE ScanLines(_)
ScanLines(s) ==
    LET n == NewlineIndex(s.buffer)
    IN  IF n = 0 THEN s
        ELSE LET line == SubSeq(s.buffer, 1, n - 1)
                 s1 == [s EXCEPT !.buffer = SubSeq(@, n + 1, Len(@))]
             IN  IF Blank(line) \/ ~Parses(line) THEN ScanLines(s1)
                 ELSE LET m == Parsed(line)
                          s2 == [s1 EXCEPT !.seen = Append(@, m)]
                      IN  IF m.id \in DOMAIN s2.inflight
                          THEN ScanLines(ResolverResolve(
                                   [s2 EXCEPT !.inflight = MapDel(@, m.id)],
                                   s2.inflight[m.id], m))
                          ELSE ScanLines(s2)

\* A handler that keeps no text between two chunks.
handleChildOutput_NoAccumulate(s, chunk) ==
    ScanLines([s EXCEPT !.buffer = chunk])

handleChildOutput(s, chunk) == ScanLines([s EXCEPT !.buffer = @ \o chunk])

\* The for loop of handleChildExit: every resolver of the map is rejected
\* (taken here by ascending id; the reactions of a rejection send nothing, so
\* the order of the loop shows in no state).
RECURSIVE RejectAll(_, _)
RejectAll(s, ids) ==
    IF ids = {} THEN s
    ELSE LET k == CHOOSE x \in ids : \A y \in ids : x <= y
         IN  RejectAll(ResolverReject(s, s.inflight[k], "exited"), ids \ {k})

\* A restart test that is off by one upwards: one restart too many.
MayRestart_OneMore(s) == ~s.isRestarting /\ s.restartCount <= maxRestarts

\* A restart test that is off by one downwards: it gives up one death early.
MayRestart_OneLess(s) == ~s.isRestarting /\ s.restartCount < maxRestarts - 1

\* `!this.isRestarting && this.restartCount < this.maxRestarts`
MayRestart(s) == ~s.isRestarting /\ s.restartCount < maxRestarts

\* A delay that doubles with every attempt (what the comment of line 308
\* announces).
Backoff_Exponential(s) == 1000 * 2 ^ (s.restartCount - 1)

\* `1000 * this.restartCount`, the delay of the restart timer (read after the
\* increment of restartCount).
Backoff(s) == 1000 * s.restartCount

\* `this.initialized = false; this.initPromise = null;`
ResetHandshake(s) == [s EXCEPT !.initialized = FALSE, !.initPromise = 0]

\* handleChildExit(code): the handshake is reset, then every pending request
\* is rejected and the map cleared, then the restart test is made.
handleChildExit(s) ==
    LET s1 == ResetHandshake(s)
        s2 == [RejectAll(s1, DOMAIN s1.inflight) EXCEPT !.inflight = EmptyMap]
    IN  IF MayRestart(s2)
        THEN LET s3 == [s2 EXCEPT !.isRestarting = TRUE,
                                  !.restartCount = @ + 1]
             IN  [s3 EXCEPT !.restartTimers = @ + 1,
                            !.delays = Append(@, Backoff(s3))]
        ELSE s2

\* ChildProcess.kill(): the signal is delivered, and killed is set, only if
\* the process is still there.
Kill(s, c) ==
    IF s.kids[c].proc = "running" THEN [s EXCEPT !.kids[c].killed = TRUE] ELSE s

\* spawnChild(); ok tells whether the operating system started the process.
spawnChild(s, ok) ==
    LET s1 == IF s.child # 0 THEN Kill(s, s.child) ELSE s
        kid == [proc |-> IF ok THEN "running" ELSE "failed",
                killed |-> FALSE, exitEv |-> FALSE, errEv |-> FALSE]
    IN  [s1 EXCEPT !.kids = Append(@, kid),
                   !.child = Len(s1.kids) + 1,
                   !.buffer = <<>>,
                   !.initTimers = @ + 1]

\* The 'error' listener of the handle: handleChildExit(1). Node emits the
\* error of a process that could not be spawned on the next tick, that is
\* right after the callback that called spawn() and before any other event.
onError(s) ==
    IF s.kids[s.child].proc = "failed" /\ ~s.kids[s.child].errEv
    THEN handleChildExit([s EXCEPT !.kids[s.child].errEv = TRUE])
    ELSE s

\* A restart callback that spawns and forgets to lower the flag.
restartCallback_KeepsFlag(s, ok) == spawnChild(s, ok)

\* A restart callback that gives the budget back once it has spawned.
restartCallback_ResetsCount(s, ok) ==
    [spawnChild(s, ok) EXCEPT !.isRestarting = FALSE, !.restartCount = 0]

\* The callback handleChildExit passes to setTimeout:
\* `this.spawnChild(); this.isRestarting = false;`
restartCallback(s, ok) == [spawnChild(s, ok) EXCEPT !.isRestarting = FALSE]

\* The state the constructor starts from (before its spawnChild()).
Fresh ==
    [child |-> 0, kids |-> <<>>, inflight |-> EmptyMap, buffer |-> <<>>,
     requestId |-> 1, isRestarting |-> FALSE, restartCount |-> 0,
     initialized |-> FALSE, initPromise |-> 0, reqs |-> <<>>, posts |-> <<>>,
     restartTimers |-> 0, initTimers |-> 0, authToken |-> 0,
     requestCredentials |-> EmptyMap, delays |-> <<>>, norm |-> NoCall,
     codec |-> NoFeed, jobs |-> <<>>, seen |-> <<>>]

----------------------------------------------------------------------------
\* The state after `new HTTPBridge()` in a process whose environment has
\* MCP_HTTP_TOKEN = tok: the constructor ends with spawnChild(), which
\* starts the process (ok) or fails to.
Boot(tok, ok) ==
    LET s == Drain(onError(spawnChild([Fresh EXCEPT !.authToken = tok],
                                      ok)))
    IN  /\ child = s.child
        /\ kids = s.kids
        /\ inflight = s.inflight
        /\ buffer = s.buffer
        /\ requestId = s.requestId
        /\ isRestarting = s.isRestarting
        /\ restartCount = s.restartCount
        /\ initialized = s.initialized
        /\ initPromise = s.initPromise
        /\ reqs = s.reqs
        /\ posts = s.posts
        /\ restartTimers = s.restartTimers
        /\ initTimers = s.initTimers
        /\ authToken = s.authToken
        /\ requestCredentials = s.requestCredentials
        /\ delays = s.delays
        /\ norm = s.norm
        /\ codec = s.codec

\* The bridge is started without MCP_HTTP_TOKEN.
Init == \E ok \in BOOLEAN : Boot(0, ok)

\* The bridge is started with or without MCP_HTTP_TOKEN.
InitHttp == \E ok \in BOOLEAN, tok \in 0..1 : Boot(tok, ok)

\* The initialize messages built so far.
NumInits == Cardinality({k \in 1..Len(reqs) : reqs[k].kind = "init"})

\* initializeChild() can run within the bounds of the model.
CanInit == initPromise # 0 \/ NumInits < MaxInits

\* The setTimeout callback of spawnChild (500 ms after a spawn).
SpawnInitTimer ==
    /\ initTimers > 0
    /\ CanInit
    /\ Install(Drain(initializeChild([St EXCEPT !.initTimers = @ - 1], 0)))

\* The values of the Authorization header of a request: the header is
\* absent, or it is the text of a scheme word, a space and a token.
NoHeader == [scheme |-> "", token |-> 0]

Bearer(tok) == [scheme |-> "Bearer", token |-> tok]

Headers == {NoHeader, Bearer(1), Bearer(2), [scheme |-> "Basic", token |-> 1]}

\* A token test that compares the token and ignores the scheme word.
Unauthorized_TokenOnly(s, hdr) ==
    s.authToken # 0 /\ hdr.token # s.authToken

\* `authToken && req.headers.authorization !== `Bearer ${authToken}``
Unauthorized(s, hdr) == s.authToken # 0 /\ hdr # Bearer(s.authToken)

\* POST /mcp with body {method, params, id}, Authorization header hdr and
\* x-perplexity-key header key (0: absent); cid = 0 is a body without id,
\* which takes this.requestId++ (before the token is tested).
PostMcpWith(cid, hdr, key, method, params) ==
    /\ Len(posts) < MaxPosts
    /\ LET p == Len(posts) + 1
           id == IF cid = 0 THEN requestId ELSE cid
           s0 == [St EXCEPT
                    !.requestId = IF cid = 0 THEN @ + 1 ELSE @,
                    !.posts = Append(@, [id |-> id, method |-> method,
                                         params |-> params, key |-> key,
                                         stage |-> "new",
                                         init |-> 0, req |-> 0, http |-> 0,
                                         code |-> 0, message |-> "",
                                         rid |-> 0, body |-> NoMsg,
                                         nresp |-> 0, shared |-> FALSE,
                                         exact |-> /\ hdr.scheme = "Bearer"
                                                   /\ hdr.token = authToken])]
           s1 == IF key # 0
                 THEN [s0 EXCEPT !.requestCredentials = MapSet(@, id, key)]
                 ELSE s0
       IN  IF Unauthorized(s0, hdr)
           THEN Install(PostDeny(s0, p))
           ELSE IF NotRunning(s1)
                THEN Install(PostFail(s1, p, "stdio"))
                ELSE /\ CanInit
                     /\ Install(Drain(initializeChild(s1, p)))

\* POST /mcp whose body asks for the list of tools.
PostMcp(cid, hdr, key) == PostMcpWith(cid, hdr, key, "tools/list", Absent)

\* The child answers call r, which was written to its stdin, with a result
\* or with a JSON-RPC error object.
ChildRespond(r, err) ==
    /\ reqs[r].written
    /\ reqs[r].out = "none"
    /\ kids[reqs[r].child].proc = "running"
    /\ reqs' = [reqs EXCEPT ![r].out = "inpipe", ![r].err = err]
    /\ UNCHANGED <<child, kids, inflight, buffer, requestId, isRestarting,
                   restartCount, initialized, initPromise, posts,
                   restartTimers, initTimers, authToken, requestCredentials,
                   delays, norm, codec>>

\* stdout 'data' listener: the line with the child's answer to call r
\* arrives (also after the 'exit' event: the stream may still be open).
ChildOutput(r) ==
    /\ reqs[r].out = "inpipe"
    /\ Install(Drain(handleChildOutput(
           [St EXCEPT !.reqs[r].out = "delivered"],
           <<Msg(reqs[r].id, r, reqs[r].err), NL>>)))

\* The setTimeout callback of sendToChild for call r (60 s).
RequestTimeout(r) ==
    /\ reqs[r].timer
    /\ LET s0 == [St EXCEPT !.reqs[r].timer = FALSE]
           id == reqs[r].id
       IN  IF id \in DOMAIN inflight
           THEN Install(Drain(Settle([s0 EXCEPT !.inflight = MapDel(@, id)],
                                     r, "timeout", NoMsg)))
           ELSE Install(s0)

\* The callback of child.stdin.write for call r reports an error: the
\* process it was written to is gone and never read the message. (A callback
\* without error changes nothing and is not an action of the model.)
WriteError(r) ==
    /\ reqs[r].wcb
    /\ reqs[r].out = "none"
    /\ kids[reqs[r].child].proc # "running"
    /\ LET s0 == [St EXCEPT !.reqs[r].wcb = FALSE]
           id == reqs[r].id
       IN  IF id \in DOMAIN inflight
           THEN Install(Drain(Settle([s0 EXCEPT !.inflight = MapDel(@, id),
                                                !.reqs[r].timer = FALSE],
                                     r, "write", NoMsg)))
           ELSE Install(s0)

\* The process of handle c ends (a crash, or the signal of kill()) and the
\* 'exit' listener of the handle runs: handleChildExit(code).
ChildExit(c) ==
    /\ kids[c].proc = "running"
    /\ Install(Drain(handleChildExit([St EXCEPT !.kids[c].proc = "exited",
                                                !.kids[c].exitEv = TRUE])))

\* The setTimeout callback of handleChildExit: spawnChild(), then
\* isRestarting = false. The 500 ms timer of the previous spawn has fired by
\* then: it was set earlier and is shorter than any restart delay.
RestartTimer(ok) ==
    /\ restartTimers > 0
    /\ initTimers = 0
    /\ Install(Drain(onError(
           restartCallback([St EXCEPT !.restartTimers = @ - 1], ok))))

Next ==
    \/ SpawnInitTimer
    \/ \E cid \in 0..MaxClientId, hdr \in Headers : PostMcp(cid, hdr, 0)
    \/ \E r \in 1..Len(reqs) : ChildRespond(r, FALSE)
    \/ \E r \in 1..Len(reqs) : ChildOutput(r)
    \/ \E r \in 1..Len(reqs) : RequestTimeout(r)
    \/ \E r \in 1..Len(reqs) : WriteError(r)
    \/ \E c \in 1..Len(kids) : ChildExit(c)
    \/ \E ok \in BOOLEAN : RestartTimer(ok)

\* The bridge without a token, serving clients that may choose their ids
\* and send no credential header, in front of a child that answers every
\* request with a result.
Spec == Init /\ [][Next]_vars

\* The HTTP front door: a token may be configured, requests carry any
\* Authorization header and possibly a credential header, and the child
\* answers with results or with error objects; the clients leave the ids to
\* the bridge.
NextHttp ==
    \/ SpawnInitTimer
    \/ \E hdr \in Headers, key \in 0..1 : PostMcp(0, hdr, key)
    \/ \E r \in 1..Len(reqs), err \in BOOLEAN : ChildRespond(r, err)
    \/ \E r \in 1..Len(reqs) : ChildOutput(r)
    \/ \E r \in 1..Len(reqs) : RequestTimeout(r)
    \/ \E r \in 1..Len(reqs) : WriteError(r)
    \/ \E c \in 1..Len(kids) : ChildExit(c)
    \/ \E ok \in BOOLEAN : RestartTimer(ok)

SpecHttp == InitHttp /\ [][NextHttp]_vars

----------------------------------------------------------------------------
\* normalizeMethod on its own: the method names and params a request body
\* may carry.
Methods ==
    {"listTools", "tools/list", "callTool", "tools/call",
     "listResources", "resources/list", "readResource", "resources/read",
     "initialize", "ping", "invalid/method", "ListTools", "tools/list "}

ParamsSet ==
    {Absent} \cup {Obj(n, u, x) : n \in {"", "fetch_perplexity_data", "echo"},
                                 u \in {"", "file:///a"},
                                 x \in 0..1}

\* this.normalizeMethod(method, params) is called.
Normalize(method, params) ==
    /\ norm' = [method |-> method, params |-> params,
                out |-> normalizeMethod(method, params)]
    /\ UNCHANGED <<child, kids, inflight, buffer, requestId, isRestarting,
                   restartCount, initialized, initPromise, reqs, posts,
                   restartTimers, initTimers, authToken, requestCredentials,
                   delays, codec>>

NextNormalize == \E method \in Methods, params \in ParamsSet :
                     Normalize(method, params)

SpecNormalize == Init /\ [][NextNormalize]_vars

----------------------------------------------------------------------------
\* Vocabulary of the properties.

Calls == 1..Len(reqs)

\* The caller of call r still waits for its promise.
Waiting(r) == reqs[r].result = "waiting"

\* The in-flight map holds the resolver of call r.
Registered(r) == reqs[r].id \in DOMAIN inflight /\ inflight[reqs[r].id] = r

\* Something that can still settle the promise of call r exists: its
\* resolver in the map, its timer, or a write callback that may report an
\* error. Nothing else holds the resolve and reject functions of the promise.
CanStillSettle(r) ==
    \/ Registered(r)
    \/ reqs[r].timer
    \/ reqs[r].wcb /\ reqs[r].out = "none"

\* The death notifications handled so far (one per handle in this model).
Deaths == Cardinality({c \in 1..Len(kids) : kids[c].exitEv \/ kids[c].errEv})

\* This step ran handleChildExit.
ExitHandled ==
    \E c \in 1..Len(kids') :
        /\ kids'[c].exitEv \/ kids'[c].errEv
        /\ c > Len(kids) \/ ~(kids[c].exitEv \/ kids[c].errEv)

\* This step ran the timeout callback of call r.
TimerFired(r) ==
    /\ reqs[r].timer
    /\ ~reqs'[r].timer
    /\ reqs'[r].wcb = reqs[r].wcb
    /\ reqs'[r].result \in {reqs[r].result, "timeout"}
    /\ ~ExitHandled

Min(a, b) == IF a < b THEN a ELSE b

----------------------------------------------------------------------------
\* C1: a request handed to sendToChild while the child is alive and the
\* handshake is complete is never left waiting forever: as long as its caller
\* waits, something that can settle its promise is still there.
C1_NeverLeftWaiting ==
    \A r \in Calls :
        (reqs[r].written /\ reqs[r].live /\ reqs[r].ready /\ Waiting(r))
            => CanStillSettle(r)

\* C2: when a child exit or error notification is handled, every request
\* pending at that moment is rejected with "Child process exited" and the
\* in-flight map is empty afterwards.
C2_ExitRejectsAllPending ==
    [][ExitHandled =>
          /\ \A r \in Calls : Waiting(r) => reqs'[r].result = "exited"
          /\ inflight' = EmptyMap]_vars

\* C3: no request of POST /mcp is written to a child's stdin before an
\* initialize exchange with that same child has completed.
C3_HandshakeBeforeTraffic ==
    \A r \in Calls :
        (reqs[r].kind = "post" /\ reqs[r].written) => reqs[r].hs

\* C4: while an initialize exchange is in progress, a caller of
\* initializeChild writes no further initialize message and suspends on the
\* pending promise; the callers of one promise are released together (none
\* stays suspended once it is settled) and with the same outcome.
C4_HandshakeCoalesced ==
    [][/\ (initPromise # 0 /\ reqs[initPromise].result = "waiting"
            /\ \/ /\ Len(posts') > Len(posts)
                  /\ posts'[Len(posts')].http # 401
                  /\ ~NotRunning(St)
               \/ initTimers' < initTimers)
          => /\ Len(reqs') = Len(reqs)
             /\ initPromise' = initPromise
             /\ Len(posts') > Len(posts) =>
                  /\ posts'[Len(posts')].stage = "await"
                  /\ posts'[Len(posts')].init = initPromise
       /\ \A p \in 1..Len(posts') :
              posts'[p].stage = "await" =>
                  reqs'[posts'[p].init].result = "waiting"
       /\ \A p, q \in 1..Len(posts') :
              (/\ posts'[p].init # 0
               /\ posts'[p].init = posts'[q].init
               /\ posts'[p].stage # "await")
                  => (posts'[p].req = 0 <=> posts'[q].req = 0)]_vars

\* Two callers shared a pending handshake and were both released by it.
C4_Witness ==
    \E p, q \in 1..Len(posts) :
        /\ p # q
        /\ posts[p].shared /\ posts[q].init = posts[p].init
        /\ posts[p].req # 0 /\ posts[q].req # 0
        /\ NumInits = 1

\* C5: with maxRestarts = M the first M child deaths each schedule a respawn
\* and the (M+1)-th schedules none; spawnChild runs at most M+1 times.
C5_RestartBudget ==
    /\ restartCount = Min(Deaths, maxRestarts)
    /\ Len(kids) + restartTimers = restartCount + 1
    /\ Len(kids) <= maxRestarts + 1

\* The (M+1)-th child has died: M respawns were scheduled and have run.
C5_Witness ==
    /\ Deaths = maxRestarts + 1
    /\ Len(kids) = maxRestarts + 1
    /\ restartCount = maxRestarts

\* C6 as stated: after exactly maxRestarts child deaths the supervisor has
\* stopped spawning (the maxRestarts-th death leads to no new child).
C6_StopsAfterMaxRestartsDeaths ==
    Deaths >= maxRestarts => (restartTimers = 0 /\ Len(kids) <= maxRestarts)

\* C6 amended: the maxRestarts-th death still leads to a new child; it is
\* after maxRestarts + 1 deaths that the supervisor has stopped spawning.
C6_StopsAfterOneMoreDeath ==
    /\ Deaths = maxRestarts =>
          (restartTimers = 1 \/ Len(kids) = maxRestarts + 1)
    /\ Deaths >= maxRestarts + 1 =>
          (restartTimers = 0 /\ ~isRestarting /\ ~ChildAlive(St))

\* The maxRestarts-th death was followed by a new child.
C6_Witness ==
    /\ Deaths = maxRestarts
    /\ Len(kids) = maxRestarts + 1
    /\ ChildAlive(St)

\* C7: while no live child exists (its death has been notified and it has
\* not been replaced), sendToChild rejects at once: nothing is registered,
\* no timer is started, nothing is written.
C7_FailFastWithoutChild ==
    \A r \in Calls : reqs[r].dead => ~reqs[r].written

\* C8: a response that arrives after its request timed out resolves no
\* promise.
C8_LateResponseDropped ==
    \A r \in Calls : ~reqs[r].stale

\* C9: a request is never registered under the id of a request that is
\* pending, so no pending entry is overwritten and no two pending callers
\* share an id.
C9_NoDuplicatePendingId ==
    /\ \A r \in Calls : reqs[r].over = 0
    /\ \A r, q \in Calls :
          (r # q /\ reqs[r].written /\ reqs[q].written
               /\ Waiting(r) /\ Waiting(q))
              => reqs[r].id # reqs[q].id

\* C10: when the timer of a pending request fires, every other call and
\* every other entry of the map are unchanged, and so are the child, the
\* restart state and the handshake state of an initialized child.
C10_TimeoutTouchesOnlyItsRequest ==
    [][\A r \in Calls :
          (TimerFired(r) /\ Waiting(r)) =>
              /\ reqs'[r].result = "timeout"
              /\ \A q \in Calls \ {r} : reqs'[q] = reqs[q]
              /\ \A k \in DOMAIN inflight :
                    inflight[k] # r =>
                        (k \in DOMAIN inflight' /\ inflight'[k] = inflight[k])
              /\ UNCHANGED <<child, kids, restartCount, isRestarting,
                             restartTimers, initTimers>>
              /\ initialized =>
                    (initialized' /\ initPromise' = initPromise)]_vars

\* This step ran the callback of child.stdin.write of call r with an error.
WriteFailed(r) == reqs[r].wcb /\ ~reqs'[r].wcb

\* C11: when the write of a request fails, its pending entry is removed, its
\* timer is cancelled and its caller is rejected with a write error; the
\* other calls and the other entries of the map are untouched, and a write
\* error reported for a call that is already settled changes nothing.
C11_WriteErrorRollsBack ==
    [][\A r \in Calls :
          WriteFailed(r) =>
              /\ Waiting(r) =>
                    /\ reqs'[r].result = "write"
                    /\ ~reqs'[r].timer
                    /\ reqs[r].id \notin DOMAIN inflight'
              /\ ~Waiting(r) =>
                    /\ reqs' = [reqs EXCEPT ![r].wcb = FALSE]
                    /\ posts' = posts
              /\ \A q \in Calls \ {r} : reqs'[q] = reqs[q]
              /\ \A k \in DOMAIN inflight :
                    inflight[k] # r =>
                        (k \in DOMAIN inflight' /\ inflight'[k] = inflight[k])
              /\ UNCHANGED <<child, kids, restartCount, isRestarting,
                             restartTimers, initTimers>>]_vars

----------------------------------------------------------------------------
\* The body of the response of GET /health in bridge state s (the handler
\* reads the state and changes nothing). production_ready is the truth value
\* of `this.initialized && this.child && !this.child.killed`.
health(s) ==
    [status |-> "ok",
     transport |-> "http-bridge",
     stdio_child |-> IF s.child # 0 THEN "running" ELSE "stopped",
     mcp_initialized |-> s.initialized,
     inflight_requests |-> Cardinality(DOMAIN s.inflight),
     restart_count |-> s.restartCount,
     production_ready |-> s.initialized /\ s.child # 0
                          /\ ~s.kids[s.child].killed]

\* C12: GET /health reports production_ready = true in exactly the states
\* where the handshake is complete and a live child process exists.
C12_ProductionReadyIffLiveAndComplete ==
    health(St).production_ready <=> (initialized /\ ChildAlive(St))

\* C13: GET /health reports stdio_child = "running" only while a live child
\* exists, and "stopped" whenever none exists.
C13_StdioChildTellsLiveness ==
    health(St).stdio_child = (IF ChildAlive(St) THEN "running" ELSE "stopped")

\* C14: with a token configured, a POST /mcp whose Authorization header is
\* not exactly "Bearer <token>" is answered with HTTP 401 and code -32001 and
\* touches nothing of the child: no call of sendToChild (handshake or
\* request), no write, and the in-flight map and the credential map are
\* unchanged.
C14_UnauthorizedHasNoEffect ==
    [][(/\ Len(posts') > Len(posts)
        /\ authToken # 0
        /\ ~posts'[Len(posts')].exact)
          => /\ posts'[Len(posts')].stage = "done"
             /\ posts'[Len(posts')].http = 401
             /\ posts'[Len(posts')].code = -32001
             /\ posts'[Len(posts')].rid = posts'[Len(posts')].id
             /\ posts'[Len(posts')].nresp = 1
             /\ UNCHANGED <<reqs, inflight, requestCredentials, initPromise,
                            initialized, child, kids, buffer, isRestarting,
                            restartCount, restartTimers, initTimers>>]_vars

\* A request was refused with 401 while a handshake was pending, and a later
\* request with the right header was served on the same bridge.
C14_Witness ==
    /\ authToken # 0
    /\ \E p, q \in 1..Len(posts) :
          /\ p < q
          /\ posts[p].http = 401 /\ ~posts[p].exact
          /\ posts[q].http = 200 /\ posts[q].exact

\* This step delivered the line with the child's answer to call r.
Delivered(r) == reqs[r].out = "inpipe" /\ reqs'[r].out = "delivered"

\* C15: a message of the child that carries an error object and matches the
\* pending request of a POST /mcp is returned to that caller as it is, with
\* HTTP 200 and not as a 500 / -32603 bridge error, and the child, the
\* handshake state and the restart state are unchanged.
C15_ChildErrorPassedThrough ==
    [][\A r \in Calls :
          (/\ Delivered(r)
           /\ reqs[r].err
           /\ reqs[r].id \in DOMAIN inflight
           /\ reqs[inflight[reqs[r].id]].kind = "post")
              => LET p == reqs[inflight[reqs[r].id]].post
                 IN  /\ posts'[p].stage = "done"
                     /\ posts'[p].http = 200
                     /\ posts'[p].code = 0
                     /\ posts'[p].body = Msg(reqs[r].id, r, TRUE)
                     /\ posts'[p].nresp = 1
                     /\ UNCHANGED <<child, kids, initialized, initPromise,
                                    isRestarting, restartCount, restartTimers,
                                    initTimers>>]_vars

\* A caller received the child's error object with HTTP 200 and the child
\* is still alive and initialized.
C15_Witness ==
    \E p \in 1..Len(posts) :
        /\ posts[p].http = 200
        /\ posts[p].body.err
        /\ initialized /\ ChildAlive(St)
        /\ restartCount = 0

\* The sendToChild call on which POST p currently depends: the handshake it
\* awaits or its own request.
PendingCall(p) ==
    IF posts[p].stage = "await" THEN posts[p].init ELSE posts[p].req

\* C16: every authorized POST /mcp that fails (child not running, handshake
\* failed, write failed, timeout) is answered with HTTP 500 and the envelope
\* {error: {code: -32603, message}, id} carrying its own id, and every POST
\* receives exactly one response: one that is answered was answered once,
\* and one that is not answered yet still has something that will settle
\* the call it depends on.
C16_FailuresAnsweredOnce ==
    \A p \in 1..Len(posts) :
        /\ posts[p].nresp = (IF posts[p].stage = "done" THEN 1 ELSE 0)
        /\ posts[p].http = 500 =>
              /\ posts[p].code = -32603
              /\ posts[p].message # ""
              /\ posts[p].rid = posts[p].id
        /\ (posts[p].req # 0 /\ ~Waiting(posts[p].req)) =>
              posts[p].http = (IF reqs[posts[p].req].result = "response"
                               THEN 200 ELSE 500)
        /\ (posts[p].req = 0 /\ posts[p].init # 0
                /\ ~Waiting(posts[p].init)) => posts[p].http = 500
        /\ posts[p].stage # "done" =>
              (Waiting(PendingCall(p)) /\ CanStillSettle(PendingCall(p)))

Canonical ==
    [m \in Methods |->
        CASE m = "listTools" -> "tools/list"
          [] m = "callTool" -> "tools/call"
          [] m = "listResources" -> "resources/list"
          [] m = "readResource" -> "resources/read"
          [] OTHER -> m]

ListMethods == {"tools/list", "resources/list"}

\* C18: normalizeMethod equals the reference mapping for every (method,
\* params): the list aliases give the canonical list method with {}, the
\* call/read aliases give the canonical method with params unchanged, every
\* other method is returned unchanged with its params; two aliases of one
\* canonical method give identical output.
C18_NormalizeIsReference ==
    norm # NoCall =>
        /\ norm.out.method = Canonical[norm.method]
        /\ norm.out.params = (IF Canonical[norm.method] \in ListMethods
                              THEN EmptyObj ELSE norm.params)
        /\ \A m \in Methods :
              Canonical[m] = Canonical[norm.method] =>
                  normalizeMethod(m, norm.params) = norm.out

\* normalizeMethod was applied to the alias listTools with params that are
\* not {}.
C18_Witness ==
    /\ norm.method = "listTools"
    /\ norm.params = Obj("echo", "", 1)
    /\ norm.out = [method |-> "tools/list", params |-> EmptyObj]

\* C19: every exit or error notification leaves the handshake NotStarted
\* (initialized = false, initPromise = null) whatever it was before; the
\* reactions of the drain that follows run in that state and start no new
\* handshake, and a handshake that was in progress is rejected, with
\* "Child process exited", for every caller that awaited it.
C19_ExitResetsHandshake ==
    [][ExitHandled =>
          /\ ~initialized'
          /\ initPromise' = 0
          /\ Len(reqs') = Len(reqs)
          /\ (initPromise # 0 /\ Waiting(initPromise)) =>
                /\ reqs'[initPromise].result = "exited"
                /\ \A p \in 1..Len(posts) :
                      (posts[p].stage = "await"
                           /\ posts[p].init = initPromise) =>
                          /\ posts'[p].stage = "done"
                          /\ posts'[p].http = 500
                          /\ posts'[p].message = "Child process exited"
                          /\ posts'[p].req = 0]_vars

\* This step called initializeChild(): the 500 ms timer of spawnChild ran,
\* or a POST /mcp passed the token test and the liveness test.
InitializeCalled ==
    \/ initTimers' < initTimers
    \/ /\ Len(posts') > Len(posts)
       /\ posts'[Len(posts')].http # 401
       /\ ~NotRunning(St)

\* C20: a handshake whose timer fires is rejected with the timeout error; a
\* handshake that fails (timeout, write error, child exit) leaves the state
\* NotStarted and its error goes to every caller that awaited it;
\* this.initPromise never keeps a rejected promise, and the next call of
\* initializeChild after a failure writes a fresh initialize message.
C20_HandshakeFailureNotSticky ==
    [][/\ \A k \in Calls :
             (reqs[k].kind = "init" /\ Waiting(k) /\ TimerFired(k)) =>
                 reqs'[k].result = "timeout"
       /\ \A k \in Calls :
             (reqs[k].kind = "init" /\ Waiting(k)
                  /\ reqs'[k].result \notin {"waiting", "response"}) =>
                 /\ initPromise' = 0
                 /\ ~initialized'
                 /\ \A p \in 1..Len(posts) :
                       (posts[p].stage = "await" /\ posts[p].init = k) =>
                           /\ posts'[p].stage = "done"
                           /\ posts'[p].http = 500
                           /\ posts'[p].message =
                                  ErrorMessage(reqs'[k].result)
       /\ initPromise' # 0 =>
             reqs'[initPromise'].result \in {"waiting", "response"}
       /\ (InitializeCalled /\ initPromise = 0) =>
             /\ Len(reqs') > Len(reqs)
             /\ reqs'[Len(reqs) + 1].kind = "init"
             /\ reqs'[Len(reqs) + 1].written
             /\ reqs'[Len(reqs) + 1].id = requestId' - 1]_vars

----------------------------------------------------------------------------
\* The setTimeout callback of spawnChild, whatever number of initialize
\* messages has been built: one timer is set per spawn, so the timers alone
\* build at most maxRestarts + 1 of them.
SpawnInitTimerDue ==
    /\ initTimers > 0
    /\ Install(Drain(initializeChild([St EXCEPT !.initTimers = @ - 1], 0)))

\* The supervisor on its own, with its timers and the handshake of every
\* child it spawns, while no HTTP request arrives (the POST handler reads and
\* writes none of child, isRestarting, restartCount and the timers).
NextLive ==
    \/ SpawnInitTimerDue
    \/ \E r \in 1..Len(reqs) : ChildRespond(r, FALSE)
    \/ \E r \in 1..Len(reqs) : ChildOutput(r)
    \/ \E r \in 1..Len(reqs) : RequestTimeout(r)
    \/ \E r \in 1..Len(reqs) : WriteError(r)
    \/ \E c \in 1..Len(kids) : ChildExit(c)
    \/ \E ok \in BOOLEAN : RestartTimer(ok)

\* A step of the 500 ms timer of spawnChild, told by its effect: it is the
\* only step that takes a timer away from initTimers.
InitTimerStep == initTimers > 0 /\ initTimers' = initTimers - 1

\* A step of the restart timer of handleChildExit, told by its effect: its
\* spawnChild() is the only step that adds a timer to initTimers.
RestartTimerStep ==
    restartTimers > 0 /\ initTimers = 0 /\ initTimers' = initTimers + 1

\* Node runs the callback of a timer once its delay has passed: the 500 ms
\* timer of spawnChild and the restart timer of handleChildExit are not
\* postponed forever.
TimersFire ==
    /\ WF_initTimers(InitTimerStep)
    /\ WF_initTimers(RestartTimerStep)

SpecLive == Init /\ [][NextLive]_vars /\ TimersFire

\* C21: a death notification handled while restartCount < maxRestarts and no
\* restart is pending increments restartCount, sets isRestarting and leaves
\* one restart timer pending; the timer fires, a fresh child is spawned and
\* isRestarting is false again (until that child dies in turn): isRestarting
\* never stays true forever.
C21_RestartCompletes ==
    /\ [][(/\ ExitHandled
           /\ restartCount < maxRestarts
           /\ ~isRestarting \/ Len(kids') > Len(kids))
             => /\ restartCount' = restartCount + 1
                /\ isRestarting'
                /\ restartTimers' = 1]_vars
    /\ [][(isRestarting /\ ~isRestarting') => Len(kids') = Len(kids) + 1]_vars
    /\ \A n \in 1..maxRestarts :
          (isRestarting /\ Len(kids) = n) ~> (Len(kids) = n + 1)
    /\ isRestarting ~> ~isRestarting
    /\ []<>(~isRestarting)

\* The last restart of the budget has run: its child is alive and no restart
\* is pending.
C21_Witness ==
    /\ restartCount = maxRestarts
    /\ Len(kids) = maxRestarts + 1
    /\ ~isRestarting
    /\ ChildAlive(St)

\* C22: restartCount never decreases and never exceeds maxRestarts: no step
\* (a spawn, a completed handshake, a served request) resets it.
C22_RestartCountMonotonic ==
    /\ restartCount \in 0..maxRestarts
    /\ [][restartCount' >= restartCount /\ restartCount' <= maxRestarts]_vars

\* A restarted child completed its handshake and served a request, and
\* restartCount still counts the restarts made.
C22_Witness ==
    /\ restartCount >= 1
    /\ restartCount = Len(kids) - 1
    /\ initialized /\ ChildAlive(St)
    /\ HandshakeDoneWith(St, child)
    /\ \E p \in 1..Len(posts) :
          /\ posts[p].http = 200
          /\ reqs[posts[p].req].child = child

\* C23: a call that was settled by a matching response, by the drain of a
\* child exit or by a write failure has no timer any more (a call settled by
\* its own timer has none either), so the timer that fires is always the
\* timer of a call that still waits: no timer of a settled call can remove
\* or reject a newer pending request that reuses its id.
C23_SettledCallHasNoTimer ==
    /\ \A r \in Calls : ~Waiting(r) => ~reqs[r].timer
    /\ \A r, q \in Calls :
          (/\ r < q
           /\ reqs[r].id = reqs[q].id
           /\ ~Waiting(r)
           /\ Waiting(q) /\ Registered(q))
              => ~reqs[r].timer

\* A request was answered, and a newer request that reuses its id is pending
\* under that id with its own timer running.
C23_Witness ==
    \E r, q \in Calls :
        /\ r < q
        /\ reqs[r].id = reqs[q].id
        /\ reqs[r].result = "response"
        /\ ~reqs[r].timer
        /\ Waiting(q) /\ Registered(q) /\ reqs[q].timer

----------------------------------------------------------------------------
\* handleChildOutput on its own: the stdout of the first child delivers any
\* stream of symbols, cut into chunks at any place, while the handshake of
\* that child may be pending.
Symbols ==
    {Msg(1, 0, FALSE), Msg(2, 0, TRUE), MsgL(1), MsgR(0, FALSE), NL, SP, BAD}

\* stdout 'data' listener: handleChildOutput(chunk).
Feed(chunk) ==
    LET s == handleChildOutput(St, chunk)
    IN  Install([Drain(s) EXCEPT
                   !.codec = [fed |-> codec.fed \o chunk,
                              out |-> codec.out \o s.seen,
                              calls |-> codec.calls + 1]])

NextCodec ==
    \/ SpawnInitTimer
    \/ \E n \in 1..(MaxStream - Len(codec.fed)) :
          \E chunk \in [1..n -> Symbols] : Feed(chunk)

SpecCodec == Init /\ [][NextCodec]_vars

\* The reference of C25, on the concatenated stream b. The line that ends at
\* the newline at position e begins after the newline before it.
LineBefore(b, e) ==
    LET before == {i \in 1..(e - 1) : b[i].t = "nl"}
        start == IF before = {} THEN 0
                 ELSE CHOOSE i \in before : \A j \in before : j <= i
    IN  SubSeq(b, start + 1, e - 1)

\* The messages of the newline-terminated lines among the first e symbols of
\* b, in order: blank lines and lines that do not parse give none.
RECURSIVE ExpectedUpTo(_, _)
ExpectedUpTo(b, e) ==
    IF e = 0 THEN <<>>
    ELSE LET line == LineBefore(b, e)
         IN  IF b[e].t = "nl" /\ ~Blank(line) /\ Parses(line)
             THEN Append(ExpectedUpTo(b, e - 1), Parsed(line))
             ELSE ExpectedUpTo(b, e - 1)

Expected(b) == ExpectedUpTo(b, Len(b))

\* The text after the last newline of b.
Remainder(b) == LineBefore(b, Len(b) + 1)

\* C25: whatever the stream and the way it is cut into chunks, the messages
\* handleChildOutput has dispatched are, in order, the parse of every
\* newline-terminated line of the concatenated stream, without the blank
\* lines and the lines that do not parse, and the text after the last
\* newline is what the buffer holds; a chunk that completes no message
\* (malformed or blank lines, or no line) changes nothing but the buffer.
C25_FramesInOrder ==
    /\ [](codec.out = Expected(codec.fed))
    /\ [](codec.calls > 0 => buffer = Remainder(codec.fed))
    /\ [][(codec' # codec /\ Expected(codec'.fed) = Expected(codec.fed))
             => UNCHANGED <<child, kids, inflight, requestId, isRestarting,
                            restartCount, initialized, initPromise, reqs,
                            posts, restartTimers, initTimers, authToken,
                            requestCredentials, delays, norm>>]_vars

\* A malformed line was followed by the reply to the pending handshake, whose
\* text arrived in two chunks: every symbol came in a chunk of its own, the
\* reply was dispatched and completed the handshake.
C25_Witness ==
    /\ codec.fed = <<BAD, NL, MsgL(1), MsgR(0, FALSE), NL>>
    /\ codec.calls = 5
    /\ codec.out = <<Msg(1, 0, FALSE)>>
    /\ buffer = <<>>
    /\ initialized

----------------------------------------------------------------------------
\* stdout 'data' listener: the beginning of the line with the child's answer
\* to call r arrives in a chunk of its own...
ChildOutputPart(r) ==
    /\ reqs[r].out = "inpipe"
    /\ Install(Drain(handleChildOutput(
           [St EXCEPT !.reqs[r].out = "half"],
           <<MsgL(reqs[r].id)>>)))

\* ... and the rest of the line arrives in a later chunk. The listener was
\* attached to the stdout of the handle the call was written to, and stays
\* attached when the handle is replaced.
ChildOutputRest(r) ==
    /\ reqs[r].out = "half"
    /\ Install(Drain(handleChildOutput(
           [St EXCEPT !.reqs[r].out = "delivered"],
           <<MsgR(r, reqs[r].err), NL>>)))

\* The supervisor and its children, whose output arrives in whole lines or
\* in pieces.
NextStream ==
    \/ NextLive
    \/ \E r \in 1..Len(reqs) : ChildOutputPart(r)
    \/ \E r \in 1..Len(reqs) : ChildOutputRest(r)

SpecStream == Init /\ [][NextStream]_vars

\* C24: the buffer is empty right after every spawn, and it never holds text
\* of a child other than the current one: the beginning of a line written by
\* a child that was replaced is never in the buffer that receives the output
\* of its successor.
C24_BufferBelongsToCurrentChild ==
    /\ [][Len(kids') > Len(kids) => buffer' = <<>>]_vars
    /\ [](\A i \in 1..Len(buffer) : \A r \in Calls :
             (buffer[i].t = "msgL" /\ buffer[i].id = reqs[r].id)
                 => reqs[r].child = child)

----------------------------------------------------------------------------
\* The request bodies and credential headers of the credential path: a call
\* of the tool that takes the credential under both names of the method,
\* calls that must not receive it, and two different credentials.
Bodies ==
    {[method |-> "callTool", params |-> Obj("fetch_perplexity_data", "", 0)],
     [method |-> "tools/call", params |-> Obj("echo", "", 0)],
     [method |-> "listTools", params |-> Obj("fetch_perplexity_data", "", 0)],
     [method |-> "tools/call", params |-> Absent]}

Keys == 0..2

\* The bridge in front of one child, serving requests with and without a
\* credential header, with ids chosen by the bridge or by the client.
NextCred ==
    \/ SpawnInitTimer
    \/ \E cid \in 0..1, key \in Keys, b \in Bodies :
          PostMcpWith(cid, NoHeader, key, b.method, b.params)
    \/ \E r \in 1..Len(reqs) : ChildRespond(r, FALSE)
    \/ \E r \in 1..Len(reqs) : ChildOutput(r)
    \/ \E r \in 1..Len(reqs) : RequestTimeout(r)
    \/ \E r \in 1..Len(reqs) : WriteError(r)
    \/ \E c \in 1..Len(kids) : ChildExit(c)

SpecCred == Init /\ [][NextCred]_vars

\* C26: a message written to the child carries a credential exactly when it
\* is the message of a POST /mcp that came with the x-perplexity-key header
\* and normalizes to tools/call of fetch_perplexity_data, and the credential
\* it carries is the one of that same request; the initialize message never
\* carries one; a message is what it was when it was written; and once a
\* request has been answered, the credential map holds no entry of it: every
\* entry is the credential of a request that is not answered yet.
C26_CredentialStaysWithItsRequest ==
    /\ [](\A r \in Calls :
             LET m == reqs[r].message
             IN  IF reqs[r].kind = "init" THEN m.auth = 0
                 ELSE LET post == posts[reqs[r].post]
                      IN  post.stage # "done" =>
                            /\ m.id = post.id
                            /\ m.auth \in {0, post.key}
                            /\ m.auth # 0 <=>
                                  /\ post.key # 0
                                  /\ post.method \in {"callTool", "tools/call"}
                                  /\ m.method = "tools/call"
                                  /\ post.params.name = "fetch_perplexity_data")
    /\ [][\A r \in Calls : reqs'[r].message = reqs[r].message]_vars
    /\ [](\A id \in DOMAIN requestCredentials :
             \E p \in 1..Len(posts) :
                 /\ posts[p].id = id
                 /\ posts[p].key = requestCredentials[id]
                 /\ posts[p].stage # "done")

\* Two requests with different credentials are pending at the child at the
\* same time: the tool call carries its own credential and the other request
\* carries none.
C26_Witness ==
    \E p, q \in 1..Len(posts) :
        /\ posts[p].key = 1 /\ posts[q].key = 2
        /\ posts[p].req # 0 /\ posts[q].req # 0
        /\ reqs[posts[p].req].message.auth = 1
        /\ reqs[posts[q].req].message.auth = 0
        /\ Waiting(posts[p].req) /\ Waiting(posts[q].req)

----------------------------------------------------------------------------
\* The 'exit' listener of handle c runs after its 'error' listener has:
\* Node may or may not emit 'exit' after an 'error' ("guard against
\* accidentally invoking handler functions multiple times"), at any time,
\* also when the handle has been replaced meanwhile.
LateExit(c) ==
    /\ kids[c].errEv
    /\ ~kids[c].exitEv
    /\ Install(Drain(handleChildExit([St EXCEPT !.kids[c].exitEv = TRUE])))

\* The supervisor whose children may be notified dead twice.
NextTwice ==
    \/ NextLive
    \/ \E c \in 1..Len(kids) : LateExit(c)

SpecTwice == Init /\ [][NextTwice]_vars

\* This step handled an exit or error notification of handle c.
Notified(c) ==
    \/ c > Len(kids) /\ kids'[c].errEv
    \/ c <= Len(kids) /\ ~kids[c].exitEv /\ kids'[c].exitEv

\* C27: a notification of a handle that spawnChild has replaced leaves the
\* current child alone: the pending requests, the handshake state and the
\* restart state are unchanged, and no child is ever killed by a respawn.
C27_StaleNotificationIgnored ==
    /\ [][\A c \in 1..Len(kids) :
             (Notified(c) /\ c # child) =>
                 UNCHANGED <<inflight, reqs, initialized, initPromise,
                             restartCount, isRestarting, restartTimers,
                             child>>]_vars
    /\ [](\A c \in 1..Len(kids) : ~kids[c].killed)
\* C29: when the death of a child is notified twice, by 'error' and then by
\* 'exit', the second notification consumes no restart attempt (restartCount
\* and the pending restart timer are as they were), and no more than one
\* restart timer is ever pending.
C29_TwiceNotifiedCountsOnce ==
    /\ [][\A c \in 1..Len(kids) :
             (kids[c].errEv /\ Notified(c)) =>
                 UNCHANGED <<restartCount, restartTimers>>]_vars
    /\ [](restartTimers <= 1)

\* C28: the message that resolves a call is the child's reply to that very
\* call: a reply to an earlier call that carried the same id (one that timed
\* out, or one written to a previous child) never resolves a later call that
\* reuses the id.
C28_ReplyBelongsToItsRequest ==
    \A r \in Calls :
        reqs[r].result = "response" =>
            /\ reqs[r].reply = r
            /\ reqs[r].got = Msg(reqs[r].id, r, reqs[r].err)

----------------------------------------------------------------------------
\* The supervisor with its timers, in front of a client that puts the id 2
\* in every request; the first two children may die, and every respawn
\* succeeds.
NextReuse ==
    \/ SpawnInitTimerDue
    \/ PostMcp(2, NoHeader, 0)
    \/ \E r \in 1..Len(reqs) : ChildRespond(r, FALSE)
    \/ \E r \in 1..Len(reqs) : ChildOutput(r)
    \/ \E r \in 1..Len(reqs) : RequestTimeout(r)
    \/ \E r \in 1..Len(reqs) : WriteError(r)
    \/ \E c \in 1..Min(2, Len(kids)) : ChildExit(c)
    \/ RestartTimer(TRUE)

SpecReuse == Init /\ [][NextReuse]_vars

\* C30: a message of the child whose id matches the pending initialize
\* request completes the handshake, with a result or with an error object
\* alike; the handshake goes back to NotStarted only in a step that handles
\* a child exit or that rejects the initialize request (write failure,
\* timeout); and initialized is true only while initPromise is set.
C30_AnyReplyCompletesHandshake ==
    /\ [](initialized => initPromise # 0)
    /\ [][\A r \in Calls :
             (/\ Delivered(r)
              /\ reqs[r].id \in DOMAIN inflight
              /\ reqs[inflight[reqs[r].id]].kind = "init")
                 => /\ initialized'
                    /\ initPromise' = inflight[reqs[r].id]
                    /\ reqs'[initPromise'].result = "response"
                    /\ reqs'[initPromise'].got.err = reqs[r].err]_vars
    /\ [][(initPromise # 0 /\ initPromise' = 0) =>
             \/ ExitHandled
             \/ reqs'[initPromise].result \in {"write", "timeout"}]_vars

====
